---- MODULE Spec2Model ----
(***************************************************************************)
(* A model of dkr (src/dkr.py): reference resolution, package merging,     *)
(* the image inventory, the staleness check and the shared build routine.  *)
(*                                                                         *)
(* Python strings are sequences of one-character strings, so that          *)
(* partition, split, strip and lower are modelled by what they do.         *)
(* Python's None is the one-element tuple None, which no string equals.    *)
(***************************************************************************)
EXTENDS Naturals, Sequences, FiniteSets, TLC

VARIABLES
    parse_call,   \* one call of parse_branch_ref: its arguments and result
    pkg_call,     \* one call of generate_dockerfile_create: conf and package list
    find_call,    \* one call of find_images: the store's answers and the result
    stale_call,   \* one call of staleness_check: image, repository, answer, result
    start_call,   \* one run of start-image: store, repository, arguments, position
    conf_call,    \* one read of .dkr.conf and the Dockerfiles generated from it
    git_repo,     \* the git repository: branches, remote-tracking refs, HEAD
    remote,       \* the branch tips of the repository behind each remote
    files,        \* the transient files present in the worktree
    docker_store, \* the image store, newest image first
    clock,        \* the wall clock read by build_labels
    pc,           \* where the running create-image / update-image stands
    cmd           \* the running command's arguments and local variables

mainVars == <<git_repo, remote, files, docker_store, clock, pc, cmd>>
vars == <<parse_call, pkg_call, find_call, stale_call, start_call, conf_call,
          mainVars>>

(***************************************************************************)
(* Python values and string operations                                     *)
(***************************************************************************)
None == <<"None">>
EmptyStr == <<>>
NotRun == [fn |-> "none"]

\* no command is running and there is no repository at hand
MainNotRun ==
    /\ git_repo = NotRun
    /\ remote = NotRun
    /\ files = {}
    /\ docker_store = <<>>
    /\ clock = 0
    /\ pc = "none"
    /\ cmd = NotRun

\* bool(s) for an optional string: None and "" are falsy
Truthy(s) == s # None /\ s # EmptyStr

Whitespace == {" ", "\n", "\t"}

Contains(s, c) == \E i \in 1..Len(s) : s[i] = c

\* str.partition(c) for a one-character separator
Partition(s, c) ==
    IF Contains(s, c)
    THEN LET i == CHOOSE k \in 1..Len(s) :
                      s[k] = c /\ \A j \in 1..(k - 1) : s[j] # c
         IN  <<SubSeq(s, 1, i - 1), <<c>>, SubSeq(s, i + 1, Len(s))>>
    ELSE <<s, EmptyStr, EmptyStr>>

\* str.split(c): "" splits into [""]
RECURSIVE Split(_, _)
Split(s, c) ==
    IF ~Contains(s, c)
    THEN <<s>>
    ELSE LET p == Partition(s, c) IN <<p[1]>> \o Split(p[3], c)

RECURSIVE LStrip(_)
LStrip(s) ==
    IF s # EmptyStr /\ Head(s) \in Whitespace THEN LStrip(Tail(s)) ELSE s

RECURSIVE RStrip(_)
RStrip(s) ==
    IF s # EmptyStr /\ s[Len(s)] \in Whitespace
    THEN RStrip(SubSeq(s, 1, Len(s) - 1))
    ELSE s

\* str.strip()
Strip(s) == RStrip(LStrip(s))

\* str.split() with no argument: runs of whitespace separate, no empty words
RECURSIVE SplitWs(_)
SplitWs(s) ==
    LET t == LStrip(s) IN
    IF t = EmptyStr
    THEN <<>>
    ELSE LET n == CHOOSE k \in 1..Len(t) :
                      /\ \A j \in 1..k : t[j] \notin Whitespace
                      /\ (k = Len(t) \/ t[k + 1] \in Whitespace)
         IN  <<SubSeq(t, 1, n)>> \o SplitWs(SubSeq(t, n + 1, Len(t)))

\* sep.join(words)
RECURSIVE Join(_, _)
Join(words, sep) ==
    IF words = <<>> THEN EmptyStr
    ELSE IF Len(words) = 1 THEN words[1]
    ELSE words[1] \o sep \o Join(Tail(words), sep)

LowerChar(c) ==
    CASE c = "Y" -> "y"
      [] c = "E" -> "e"
      [] c = "S" -> "s"
      [] c = "N" -> "n"
      [] c = "O" -> "o"
      [] OTHER   -> c

\* str.lower()
Lower(s) == [i \in 1..Len(s) |-> LowerChar(s[i])]

SeqToSet(s) == {s[i] : i \in 1..Len(s)}

\* all strings over an alphabet up to a length
StringsOver(alphabet, n) == UNION {[1..k -> alphabet] : k \in 0..n}

Digits == <<"0", "1", "2", "3", "4", "5", "6", "7", "8", "9">>
DigitChar(d) == Digits[d + 1]
DigitVal(c) == (CHOOSE i \in 1..Len(Digits) : Digits[i] = c) - 1

(***************************************************************************)
(* parse_branch_ref                                                        *)
(***************************************************************************)
HEAD == <<"H", "E", "A", "D">>
Slash == "/"

\* git(): stdout of `git remote` (one name per line), stripped
RECURSIVE RemoteLines(_)
RemoteLines(remotes) ==
    IF remotes = <<>> THEN EmptyStr
    ELSE Head(remotes) \o <<"\n">> \o RemoteLines(Tail(remotes))

GitRemoteStdout(remotes) == Strip(RemoteLines(remotes))

\* a plausible slip: the fall-through returns the partitioned branch
parse_branch_ref_partitioned(branch_from, repo_path, remotes) ==
    IF ~Truthy(branch_from) \/ branch_from = HEAD
    THEN <<None, HEAD>>
    ELSE LET p == Partition(branch_from, Slash)
             listed == Split(GitRemoteStdout(remotes), "\n")
         IN  IF repo_path # None /\ p[1] \in SeqToSet(listed)
             THEN <<p[1], p[3]>>
             ELSE <<None, p[3]>>

\* parse_branch_ref(branch_from, repo_path); remotes is what the repository
\* at repo_path has configured, in the order `git remote` prints it
parse_branch_ref(branch_from, repo_path, remotes) ==
    IF ~Truthy(branch_from) \/ branch_from = HEAD
    THEN <<None, HEAD>>
    ELSE IF Contains(branch_from, Slash) /\ repo_path # None
         THEN LET p == Partition(branch_from, Slash)
                  candidate_remote == p[1]
                  branch == p[3]
                  listed == Split(GitRemoteStdout(remotes), "\n")
              IN  IF candidate_remote \in SeqToSet(listed)
                  THEN <<candidate_remote, branch>>
                  ELSE <<None, branch_from>>
         ELSE <<None, branch_from>>

MaxRefLen == 3
RefChars == {"o", "m", Slash}
RepoPath == <<"/", "r">>
RawRefs == StringsOver(RefChars, MaxRefLen) \cup {HEAD}
RemoteConfigs ==
    {<<>>, << <<"o">> >>, << <<"o", "m">> >>, << <<"o">>, <<"o", "m">> >>}

ParseInit ==
    /\ \E r \in RawRefs, rp \in {None, RepoPath}, rs \in RemoteConfigs :
           parse_call = [branch_from |-> r, repo_path |-> rp, remotes |-> rs,
                         done |-> FALSE, result |-> <<None, None>>]
    /\ pkg_call = NotRun
    /\ find_call = NotRun
    /\ stale_call = NotRun
    /\ start_call = NotRun
    /\ conf_call = NotRun
    /\ MainNotRun

ParseBranchRef ==
    /\ parse_call # NotRun
    /\ ~parse_call.done
    /\ parse_call' = [parse_call EXCEPT
           !.done = TRUE,
           !.result = parse_branch_ref(parse_call.branch_from,
                                       parse_call.repo_path,
                                       parse_call.remotes)]
    /\ UNCHANGED <<pkg_call, find_call, stale_call, start_call, conf_call, mainVars>>

SpecParse == ParseInit /\ [][ParseBranchRef]_vars

\* the set of remotes the repository has configured
ConfiguredRemotes(remotes) == SeqToSet(remotes)

\* C7: for raw_ref = "<r>/<b>" and any set of configured remotes, the result
\* is (<r>, <b>) when <r>, the text before the first "/", is a configured
\* remote, and (None, raw_ref) otherwise.
C7_RemoteQualifiedSplit ==
    (/\ parse_call # NotRun
     /\ parse_call.done
     /\ parse_call.repo_path # None
     /\ Contains(parse_call.branch_from, Slash))
    => LET p == Partition(parse_call.branch_from, Slash) IN
       parse_call.result =
           IF p[1] \in ConfiguredRemotes(parse_call.remotes)
           THEN <<p[1], p[3]>>
           ELSE <<None, parse_call.branch_from>>

\* C8 as stated: every raw_ref without "/" comes back as (None, raw_ref).
C8_NoSlashUnchanged ==
    (/\ parse_call # NotRun
     /\ parse_call.done
     /\ ~Contains(parse_call.branch_from, Slash))
    => parse_call.result = <<None, parse_call.branch_from>>

\* C8 amended: every non-empty raw_ref without "/" comes back as
\* (None, raw_ref); the empty raw_ref comes back as (None, "HEAD").
C8_NoSlashNonEmpty ==
    (/\ parse_call # NotRun
     /\ parse_call.done
     /\ ~Contains(parse_call.branch_from, Slash))
    => parse_call.result =
           IF parse_call.branch_from = EmptyStr
           THEN <<None, HEAD>>
           ELSE <<None, parse_call.branch_from>>

C8_Witness ==
    /\ parse_call # NotRun
    /\ parse_call.done
    /\ parse_call.branch_from = <<"o", "m">>
    /\ parse_call.repo_path # None
    /\ parse_call.remotes = << <<"o">>, <<"o", "m">> >>
    /\ parse_call.result = <<None, <<"o", "m">> >>
(***************************************************************************)
(* generate_dockerfile_create: the package merge                           *)
(***************************************************************************)
git_pkg == <<"g", "i", "t">>
tmux_pkg == <<"t", "m", "u", "x">>
openssh_pkg ==
    <<"o", "p", "e", "n", "s", "s", "h", "-", "c", "l", "i", "e", "n", "t", "s">>
curl_pkg == <<"c", "u", "r", "l">>
REQUIRED_PACKAGES == <<git_pkg, tmux_pkg, openssh_pkg, curl_pkg>>

\* [p for p in user_pkgs if p not in REQUIRED_PACKAGES]
NotRequired(p) == p \notin SeqToSet(REQUIRED_PACKAGES)

\* the merge of generate_dockerfile_create: all_pkgs from conf["packages"]
all_pkgs(packages) ==
    LET user_pkgs == IF packages # EmptyStr THEN SplitWs(packages) ELSE <<>>
    IN  REQUIRED_PACKAGES \o SelectSeq(user_pkgs, NotRequired)

\* pkg_list = " ".join(all_pkgs)
pkg_list(packages) == Join(all_pkgs(packages), <<" ">>)

MaxPkgPieces == 3
PkgPieces == {<<" ">>, git_pkg, curl_pkg, <<"v">>, <<"w">>}

RECURSIVE Concat(_)
Concat(pieces) ==
    IF pieces = <<>> THEN EmptyStr ELSE Head(pieces) \o Concat(Tail(pieces))

\* the values of `packages = ...` tried: up to MaxPkgPieces pieces in a row
PackagesValues ==
    {Concat(ps) : ps \in UNION {[1..k -> PkgPieces] : k \in 0..MaxPkgPieces}}

PkgInit ==
    /\ \E v \in PackagesValues :
           pkg_call = [packages |-> v, done |-> FALSE,
                       all_pkgs |-> <<>>, pkg_list |-> EmptyStr]
    /\ parse_call = NotRun
    /\ find_call = NotRun
    /\ stale_call = NotRun
    /\ start_call = NotRun
    /\ conf_call = NotRun
    /\ MainNotRun

GenerateDockerfileCreate ==
    /\ pkg_call # NotRun
    /\ ~pkg_call.done
    /\ pkg_call' = [pkg_call EXCEPT
           !.done = TRUE,
           !.all_pkgs = all_pkgs(pkg_call.packages),
           !.pkg_list = pkg_list(pkg_call.packages)]
    /\ UNCHANGED <<parse_call, find_call, stale_call, start_call, conf_call, mainVars>>

SpecPkg == PkgInit /\ [][GenerateDockerfileCreate]_vars

\* a sequence with every later repetition of an element removed
RECURSIVE FirstOccurrences(_)
FirstOccurrences(s) ==
    IF s = <<>> THEN <<>>
    ELSE LET init == FirstOccurrences(SubSeq(s, 1, Len(s) - 1))
             last == s[Len(s)]
         IN  IF last \in SeqToSet(init) THEN init ELSE Append(init, last)

\* C9: the synthesized package list is the baseline packages in their fixed
\* order, then each configured extra package that is not a baseline package,
\* in file order, with repeated extra packages collapsed to their first
\* occurrence; so every package name occurs exactly once.
C9_PackagesMergedOnce ==
    (pkg_call # NotRun /\ pkg_call.done)
    => LET extra == SelectSeq(SplitWs(pkg_call.packages), NotRequired) IN
       /\ pkg_call.all_pkgs = REQUIRED_PACKAGES \o FirstOccurrences(extra)
       /\ \A i, j \in 1..Len(pkg_call.all_pkgs) :
              pkg_call.all_pkgs[i] = pkg_call.all_pkgs[j] => i = j
       /\ pkg_call.pkg_list =
              Join(REQUIRED_PACKAGES \o FirstOccurrences(extra), <<" ">>)
(***************************************************************************)
(* find_images and find_latest_image                                       *)
(***************************************************************************)
LabelGet(labels, k) == IF k \in DOMAIN labels THEN labels[k] ELSE None
LabelGetOr(labels, k, default) ==
    IF k \in DOMAIN labels THEN labels[k] ELSE default

\* Python's order on the characters that occur in a creation timestamp
CharOrder == <<"+", "-", ".", "0", "1", "2", "3", "4", "5", "6", "7", "8", "9", ":", "T">>
CharRank(c) == CHOOSE i \in 1..Len(CharOrder) : CharOrder[i] = c

\* a < b on strings: lexicographic, a proper prefix being smaller
RECURSIVE StrLess(_, _)
StrLess(a, b) ==
    IF b = EmptyStr THEN FALSE
    ELSE IF a = EmptyStr THEN TRUE
    ELSE IF Head(a) = Head(b) THEN StrLess(Tail(a), Tail(b))
    ELSE CharRank(Head(a)) < CharRank(Head(b))

created_at_key(x) == LabelGetOr(x.labels, "dkr.created_at", EmptyStr)

\* a plausible slip: the results left in the order of the inspection
results_unsorted(results) == results

\* list.sort(key=created_at, reverse=True): stable, so an element goes after
\* the elements already placed whose key is not smaller than its own
RECURSIVE sort_created_desc(_)
sort_created_desc(results) ==
    IF results = <<>> THEN <<>>
    ELSE LET n    == Len(results)
             init == sort_created_desc(SubSeq(results, 1, n - 1))
             x    == results[n]
             keep == Cardinality({i \in 1..Len(init) :
                         ~StrLess(created_at_key(init[i]), created_at_key(x))})
         IN  SubSeq(init, 1, keep) \o <<x>> \o SubSeq(init, keep + 1, Len(init))

\* list(dict.fromkeys(ids)): the first occurrence of each id, in order
RECURSIVE dict_fromkeys(_)
dict_fromkeys(ids) ==
    IF ids = <<>> THEN <<>>
    ELSE LET init == dict_fromkeys(SubSeq(ids, 1, Len(ids) - 1))
             last == ids[Len(ids)]
         IN  IF last \in SeqToSet(init) THEN init ELSE Append(init, last)

\* stdout of `docker images --format {{.ID}} --filter label=dkr.repo_name`:
\* one line per tag of every image that carries the label (one line for an
\* untagged image)
RECURSIVE DockerImagesStdout(_)
DockerImagesStdout(store) ==
    IF store = <<>> THEN EmptyStr
    ELSE LET img   == Head(store)
             line  == img.Id \o <<"\n">>
             lines == IF "dkr.repo_name" \notin DOMAIN img.Labels THEN EmptyStr
                      ELSE IF Len(img.RepoTags) > 1
                           THEN Concat([i \in 1..Len(img.RepoTags) |-> line])
                           ELSE line
         IN  lines \o DockerImagesStdout(Tail(store))

\* what `docker inspect <ids>` reports: the stored image of each id, in order
DockerInspect(store, image_ids) ==
    [i \in 1..Len(image_ids) |->
        CHOOSE img \in SeqToSet(store) : img.Id = image_ids[i]]

\* a plausible slip: the filter compared with the branch label alone
branch_matches_label_only(branch, labels) ==
    branch = LabelGet(labels, "dkr.branch")

\* branch in (labels.get("dkr.branch"), labels.get("dkr.branch_from"))
branch_matches(branch, labels) ==
    branch \in {LabelGet(labels, "dkr.branch"),
                LabelGet(labels, "dkr.branch_from")}

\* the filter loop of find_images over the inspected images
RECURSIVE filter_images(_, _, _)
filter_images(images, repo_path, branch) ==
    IF images = <<>> THEN <<>>
    ELSE LET img    == Head(images)
             labels == img.Labels
             rest   == filter_images(Tail(images), repo_path, branch)
         IN  IF "dkr.repo_name" \notin DOMAIN labels THEN rest
             ELSE IF repo_path # None
                     /\ LabelGet(labels, "dkr.repo_path") # repo_path THEN rest
             ELSE IF Truthy(branch) /\ ~branch_matches(branch, labels)
                  THEN rest
             ELSE <<[id |-> img.Id, tags |-> img.RepoTags, labels |-> labels]>>
                  \o rest

\* find_images(repo_path, branch) against a store that answers the two docker
\* commands as images_run and inspect_run say; the result is the returned
\* list, or the exception that leaves the function
find_images(store, images_run, inspect_run, repo_path, branch) ==
    IF images_run = "cannot_run"
    THEN [raised |-> "FileNotFoundError", images |-> <<>>]
    ELSE LET stdout == DockerImagesStdout(store) IN
    IF images_run = "nonzero" \/ Strip(stdout) = EmptyStr
    THEN [raised |-> "", images |-> <<>>]
    ELSE LET image_ids == dict_fromkeys(Split(Strip(stdout), "\n")) IN
    IF inspect_run = "nonzero"
    THEN [raised |-> "", images |-> <<>>]
    ELSE IF inspect_run = "malformed"
    THEN [raised |-> "JSONDecodeError", images |-> <<>>]
    ELSE [raised |-> "",
          images |-> sort_created_desc(
              filter_images(DockerInspect(store, image_ids), repo_path, branch))]

\* find_latest_image: imgs[0] if imgs else None
find_latest_image(found) ==
    IF found.images # <<>> THEN found.images[1] ELSE None

Labels(repo_name, repo_path, branch, branch_from, commit, created_at, type) ==
    [k \in {"dkr.repo_path", "dkr.repo_name", "dkr.branch", "dkr.branch_from",
            "dkr.commit", "dkr.created_at", "dkr.type"} |->
        CASE k = "dkr.repo_path"   -> repo_path
          [] k = "dkr.repo_name"   -> repo_name
          [] k = "dkr.branch"      -> branch
          [] k = "dkr.branch_from" -> branch_from
          [] k = "dkr.commit"      -> commit
          [] k = "dkr.created_at"  -> created_at
          [] k = "dkr.type"        -> type]

NoLabels == [k \in {} |-> EmptyStr]
BranchM == <<"m">>
BranchD == <<"d">>
RefOM == <<"o", "/", "m">>
OtherRepoPath == <<"/", "q">>
TypeBase == <<"b", "a", "s", "e">>
TypeUpdate == <<"u", "p", "d", "a", "t", "e">>

\* datetime.isoformat() of a UTC time of `sec` seconds and `tenth` tenths:
\* the fraction is left out when it is zero
IsoStamp(sec, tenth) ==
    <<DigitChar(sec)>>
        \o (IF tenth = 0 THEN EmptyStr ELSE <<".", DigitChar(tenth)>>)
        \o <<"+", "0">>

MaxStoreImages == 2
ImagePool ==
    { [Id |-> <<"a">>, RepoTags |-> << <<"t", "1">> >>,
       Labels |-> Labels(<<"r">>, RepoPath, BranchM, RefOM, <<"#", "1">>,
                         IsoStamp(1, 5), TypeBase)],
      [Id |-> <<"b">>, RepoTags |-> <<>>,
       Labels |-> Labels(<<"r">>, RepoPath, BranchM, BranchM, <<"#", "1">>,
                         IsoStamp(1, 0), TypeBase)],
      [Id |-> <<"c">>, RepoTags |-> << <<"t", "2">>, <<"t", "3">> >>,
       Labels |-> Labels(<<"q">>, OtherRepoPath, BranchD, BranchD, <<"#", "2">>,
                         IsoStamp(1, 5), TypeUpdate)],
      [Id |-> <<"d">>, RepoTags |-> << <<"t", "4">> >>, Labels |-> NoLabels],
      [Id |-> <<"e">>, RepoTags |-> << <<"t", "5">> >>,
       Labels |-> [k \in {"dkr.repo_name", "dkr.branch_from",
                          "dkr.created_at"} |->
                      CASE k = "dkr.repo_name"   -> <<"r">>
                        [] k = "dkr.branch_from" -> BranchM
                        [] k = "dkr.created_at"  -> IsoStamp(2, 0)]] }

\* the stores tried: up to MaxStoreImages different images in any order
Stores ==
    {st \in UNION {[1..k -> ImagePool] : k \in 0..MaxStoreImages} :
        \A i, j \in 1..Len(st) : st[i] = st[j] => i = j}

FindInit ==
    /\ \E st \in Stores, rp \in {None, RepoPath},
          b \in {None, EmptyStr, BranchM, BranchD, RefOM},
          ir \in {"ok", "nonzero", "cannot_run"},
          nr \in {"ok", "nonzero", "malformed"} :
           find_call = [store |-> st, repo_path |-> rp, branch |-> b,
                        images_run |-> ir, inspect_run |-> nr, done |-> FALSE,
                        result |-> [raised |-> "", images |-> <<>>],
                        latest |-> None]
    /\ parse_call = NotRun
    /\ pkg_call = NotRun
    /\ stale_call = NotRun
    /\ start_call = NotRun
    /\ conf_call = NotRun
    /\ MainNotRun

FindImages ==
    /\ find_call # NotRun
    /\ ~find_call.done
    /\ LET found == find_images(find_call.store, find_call.images_run,
                                find_call.inspect_run, find_call.repo_path,
                                find_call.branch)
       IN  find_call' = [find_call EXCEPT
               !.done = TRUE,
               !.result = found,
               !.latest = IF found.raised = "" THEN find_latest_image(found)
                          ELSE None]
    /\ UNCHANGED <<parse_call, pkg_call, stale_call, start_call, conf_call, mainVars>>

SpecFind == FindInit /\ [][FindImages]_vars

\* the query of the store met an error: a command could not be run or ended
\* non-zero, or the inspection output read by the code is not JSON
StoreQueryError(c) ==
    \/ c.images_run # "ok"
    \/ /\ Strip(DockerImagesStdout(c.store)) # EmptyStr
       /\ c.inspect_run # "ok"

\* C10: any error while querying the image store makes find_images return
\* the empty list; no error reaches the caller.
C10_StoreErrorIsEmpty ==
    (find_call # NotRun /\ find_call.done /\ StoreQueryError(find_call))
    => (find_call.result.raised = "" /\ find_call.result.images = <<>>)

\* find_images ran to its end against a store that answered both commands
FindAnswered ==
    /\ find_call # NotRun
    /\ find_call.done
    /\ find_call.images_run = "ok"
    /\ find_call.inspect_run = "ok"

\* what the filters ask of a stored image; a filter is given when it is
\* neither None nor empty
WantedImage(img, filter_repo, filter_branch) ==
    /\ "dkr.repo_name" \in DOMAIN img.Labels
    /\ Truthy(filter_repo) =>
           /\ "dkr.repo_path" \in DOMAIN img.Labels
           /\ img.Labels["dkr.repo_path"] = filter_repo
    /\ Truthy(filter_branch) =>
           \E k \in {"dkr.branch", "dkr.branch_from"} :
               k \in DOMAIN img.Labels /\ img.Labels[k] = filter_branch

\* C11: find_images returns exactly the stored images that carry the label
\* dkr.repo_name, whose dkr.repo_path equals filter_repo when that is given,
\* and whose dkr.branch or dkr.branch_from equals filter_branch when that is
\* given: each of them once, with its id, tags and labels, and nothing else.
C11_ExactlyTheMatching ==
    FindAnswered
    => LET res == find_call.result.images
           st  == find_call.store
       IN  /\ find_call.result.raised = ""
           /\ \A i, j \in 1..Len(res) : res[i].id = res[j].id => i = j
           /\ \A i \in 1..Len(res) : \E n \in 1..Len(st) :
                  /\ st[n].Id = res[i].id
                  /\ st[n].RepoTags = res[i].tags
                  /\ st[n].Labels = res[i].labels
                  /\ WantedImage(st[n], find_call.repo_path, find_call.branch)
           /\ \A n \in 1..Len(st) :
                  WantedImage(st[n], find_call.repo_path, find_call.branch)
                  => \E i \in 1..Len(res) : res[i].id = st[n].Id

\* a branch filter kept an image that has it as originating ref only, and
\* left out an image of the same repository that lacks it
C11_Witness ==
    /\ FindAnswered
    /\ find_call.branch = RefOM
    /\ Len(find_call.store) = 2
    /\ Len(find_call.result.images) = 1
    /\ find_call.result.images[1].labels["dkr.branch"] # RefOM
    /\ find_call.result.images[1].labels["dkr.branch_from"] = RefOM

\* the time a creation timestamp denotes, in tenths of a second
StampTime(stamp) ==
    10 * DigitVal(stamp[1])
        + (IF stamp[2] = "." THEN DigitVal(stamp[3]) ELSE 0)

\* C12: the returned list is in descending order of creation time: of two
\* returned images with times t1 > t2 the one with t1 comes first, whatever
\* the order in the store; find_latest_image gives the first element, or
\* None for an empty list.
C12_NewestFirst ==
    FindAnswered
    => LET res == find_call.result.images
           Stamped(i) == "dkr.created_at" \in DOMAIN res[i].labels
       IN  /\ \A i, j \in 1..Len(res) :
                  (/\ Stamped(i) /\ Stamped(j)
                   /\ StampTime(res[i].labels["dkr.created_at"])
                          > StampTime(res[j].labels["dkr.created_at"]))
                  => i < j
           /\ IF res = <<>> THEN find_call.latest = None
              ELSE find_call.latest = res[1]

\* the store listed the older image first and the newer one was returned
\* first; the older one has no fraction in its timestamp
C12_Witness ==
    /\ FindAnswered
    /\ Len(find_call.store) = 2
    /\ find_call.store[1].Id = <<"b">>
    /\ find_call.store[2].Id = <<"a">>
    /\ Len(find_call.result.images) = 2
    /\ find_call.result.images[1].id = <<"a">>
    /\ find_call.latest = find_call.result.images[1]
(***************************************************************************)
(* The version-control collaborator.  A repository holds lines of history; *)
(* line l is a chain of top[l] commits, the commit at height h having the  *)
(* h - 1 commits below it as ancestors, and different lines share nothing  *)
(* (a rewritten history is a new line).  top[l] = 0: the objects of line l *)
(* are gone.  A commit hash is the string "#" line height (two digits).    *)
(***************************************************************************)
IsDigits(s) == s # EmptyStr /\ \A i \in 1..Len(s) : s[i] \in SeqToSet(Digits)

\* the decimal text of a count, as git prints it
RECURSIVE Decimal(_)
Decimal(n) ==
    IF n < 10 THEN <<DigitChar(n)>>
    ELSE Decimal(n \div 10) \o <<DigitChar(n % 10)>>

\* int(count_str) on a string of digits
RECURSIVE ParseInt(_)
ParseInt(s) ==
    IF Len(s) = 1 THEN DigitVal(s[1])
    ELSE 10 * ParseInt(SubSeq(s, 1, Len(s) - 1)) + DigitVal(s[Len(s)])

Hash(line, h) ==
    <<"#", DigitChar(line), DigitChar(h \div 10), DigitChar(h % 10)>>
IsHash(s) ==
    Len(s) = 4 /\ s[1] = "#" /\ IsDigits(SubSeq(s, 2, 4))
LineOf(c) == DigitVal(c[2])
HeightOf(c) == 10 * DigitVal(c[3]) + DigitVal(c[4])

ObjectExists(repo, c) ==
    /\ IsHash(c)
    /\ LineOf(c) \in DOMAIN repo.top
    /\ HeightOf(c) \in 1..repo.top[LineOf(c)]

\* what `git rev-parse <name>` resolves to; "" when git fails.  A local
\* branch is looked up before a remote-tracking branch of the same name.
GitRevParse(repo, name) ==
    IF name = HEAD
    THEN IF repo.head \in DOMAIN repo.branches
         THEN repo.branches[repo.head] ELSE repo.head
    ELSE IF name \in DOMAIN repo.branches THEN repo.branches[name]
    ELSE IF name \in DOMAIN repo.tracking THEN repo.tracking[name]
    ELSE IF ObjectExists(repo, name) THEN name
    ELSE EmptyStr

\* `git rev-list --count a..b`: the commits reachable from b and not from a;
\* a non-zero exit when either side does not resolve
GitRevListCount(repo, a, b) ==
    LET ca == GitRevParse(repo, a)
        cb == GitRevParse(repo, b)
    IN  IF ca = EmptyStr \/ cb = EmptyStr
        THEN [returncode |-> 128, stdout |-> EmptyStr]
        ELSE LET n == IF LineOf(ca) # LineOf(cb) THEN HeightOf(cb)
                      ELSE IF HeightOf(cb) > HeightOf(ca)
                           THEN HeightOf(cb) - HeightOf(ca)
                           ELSE 0
             IN  [returncode |-> 0, stdout |-> Decimal(n) \o <<"\n">>]

(***************************************************************************)
(* staleness_check                                                         *)
(***************************************************************************)
STALENESS_THRESHOLD == 50

Yes == {<<"y">>, <<"y", "e", "s">>}

\* a plausible slip: the threshold taken as inclusive
exceeds_threshold_inclusive(behind) == behind >= STALENESS_THRESHOLD

\* behind > STALENESS_THRESHOLD
exceeds_threshold(behind) == behind > STALENESS_THRESHOLD

\* a plausible slip: the branch label preferred to the originating ref, and
\* an unresolvable branch sent to the count
comparison_branch_plain(labels) ==
    IF Truthy(LabelGet(labels, "dkr.branch"))
    THEN LabelGet(labels, "dkr.branch")
    ELSE HEAD

\* labels.get("dkr.branch_from") or labels.get("dkr.branch")
comparison_branch(labels) ==
    IF Truthy(LabelGet(labels, "dkr.branch_from"))
    THEN LabelGet(labels, "dkr.branch_from")
    ELSE LabelGet(labels, "dkr.branch")

\* a plausible slip: the answer compared as typed
normalize_answer_as_typed(answer) == answer

\* input(...).strip().lower()
normalize_answer(answer) == Lower(Strip(answer))

\* a plausible slip: the answer handled as in the drift branch
unverifiable_verdict_as_drift(resp) ==
    IF resp \in Yes THEN "update" ELSE "True"

\* return resp in ("y", "yes") after "Start anyway?"
unverifiable_verdict(resp) ==
    IF resp \in Yes THEN "True" ELSE "False"

Fresh == [verdict |-> "True", rev_list_run |-> FALSE, counted |-> FALSE,
          behind |-> 0, printed |-> <<>>, prompts |-> <<>>]

\* staleness_check(image, repo_path) with `answer` typed at a prompt: the
\* value returned ("True", "False" or "update"), whether rev-list was run,
\* whether it gave a count, the count, the warnings printed and the prompts
\* asked
staleness_check(image, repo, answer) ==
    LET labels       == image.labels
        image_commit == LabelGet(labels, "dkr.commit")
        branch       == comparison_branch(labels)
    IN
    IF ~Truthy(image_commit) \/ ~Truthy(branch) THEN Fresh
    ELSE IF GitRevParse(repo, branch) = EmptyStr THEN Fresh
    ELSE LET r         == GitRevListCount(repo, image_commit, branch)
             count_str == Strip(r.stdout)
             resp      == normalize_answer(answer)
         IN
         IF r.returncode # 0 \/ ~IsDigits(count_str)
         THEN [verdict |-> unverifiable_verdict(resp),
               rev_list_run |-> TRUE, counted |-> FALSE, behind |-> 0,
               printed |-> <<"cannot verify">>,
               prompts |-> <<"Start anyway?">>]
         ELSE LET behind == ParseInt(count_str) IN
              IF exceeds_threshold(behind)
              THEN [verdict |-> IF resp \in Yes THEN "update" ELSE "True",
                    rev_list_run |-> TRUE, counted |-> TRUE,
                    behind |-> behind,
                    printed |-> <<"commits behind">>,
                    prompts |-> <<"update before starting?">>]
              ELSE [Fresh EXCEPT !.rev_list_run = TRUE, !.counted = TRUE,
                                 !.behind = behind]
MaxTip == 53
Absent == <<"Absent">>
UnknownRef == <<"x">>
Answers == {<<"y">>, <<"y", "e", "s">>, <<"Y">>, <<"y", "e", "s", " ">>,
            <<"n">>, EmptyStr}

\* a label mapping with the given values, a key left out when its value is Absent
PartialLabels(commit, branch_from, branch) ==
    LET all == Labels(<<"r">>, RepoPath, branch, branch_from, commit,
                      <<"0", "1">>, TypeBase)
    IN  [k \in {j \in DOMAIN all : all[j] # Absent} |-> all[k]]

\* a repository whose branch m and remote-tracking branch o/m sit at height
\* `start` of line 1; line 2 holds `other` commits that no branch reaches
StaleRepo(start, other) ==
    [branches |-> [n \in {BranchM} |-> Hash(1, start)],
     tracking |-> [n \in {RefOM} |-> Hash(1, start)],
     top      |-> <<start, other>>,
     head     |-> BranchM]

StaleInit ==
    /\ \E start \in 1..2, mv \in {BranchM, RefOM}, ans \in Answers,
          bf \in {Absent, EmptyStr, BranchM, RefOM, UnknownRef},
          b \in {Absent, BranchM} :
       \E c \in {<<Absent, 0>>, <<EmptyStr, 0>>, <<Hash(1, start), 0>>,
                  <<Hash(2, 1), 0>>, <<Hash(2, 1), 1>>} :
           stale_call = [image  |-> [id |-> <<"a">>, tags |-> <<>>,
                                     labels |-> PartialLabels(c[1], bf, b)],
                         repo   |-> StaleRepo(start, c[2]),
                         start  |-> start,
                         moving |-> mv,
                         added  |-> 0,
                         answer |-> ans,
                         done   |-> FALSE,
                         result |-> Fresh]
    /\ parse_call = NotRun
    /\ pkg_call = NotRun
    /\ find_call = NotRun
    /\ start_call = NotRun
    /\ conf_call = NotRun
    /\ MainNotRun

\* one more commit on line 1; the branch that moves (committed to, or fetched)
\* now points at it
StaleGitCommit ==
    /\ stale_call # NotRun
    /\ ~stale_call.done
    /\ stale_call.repo.top[1] < MaxTip
    /\ LET repo == stale_call.repo
           tip  == Hash(1, repo.top[1] + 1)
       IN  stale_call' = [stale_call EXCEPT
               !.added = @ + 1,
               !.repo = [repo EXCEPT
                   !.top = [@ EXCEPT ![1] = @ + 1],
                   !.branches = IF stale_call.moving = BranchM
                                THEN [@ EXCEPT ![BranchM] = tip] ELSE @,
                   !.tracking = IF stale_call.moving = RefOM
                                THEN [@ EXCEPT ![RefOM] = tip] ELSE @]]
    /\ UNCHANGED <<parse_call, pkg_call, find_call, start_call, conf_call, mainVars>>

StalenessCheck ==
    /\ stale_call # NotRun
    /\ ~stale_call.done
    /\ stale_call' = [stale_call EXCEPT
           !.done = TRUE,
           !.result = staleness_check(stale_call.image, stale_call.repo,
                                      stale_call.answer)]
    /\ UNCHANGED <<parse_call, pkg_call, find_call, start_call, conf_call, mainVars>>

StaleNext == StaleGitCommit \/ StalenessCheck

SpecStale == StaleInit /\ [][StaleNext]_vars

\* C3: when the commit count is computed, the warning and the update prompt
\* appear if and only if the count is strictly greater than 50; a count of 50
\* returns True with no prompt and a count of 51 asks the prompt.
C3_ThresholdExclusive ==
    (stale_call # NotRun /\ stale_call.done /\ stale_call.result.counted)
    => LET r == stale_call.result IN
       /\ (r.prompts # <<>>) <=> (r.behind > 50)
       /\ (r.printed # <<>>) <=> (r.behind > 50)
       /\ r.behind = 50 => (r.verdict = "True" /\ r.prompts = <<>>)
       /\ r.behind = 51 => r.prompts = <<"update before starting?">>

C3_Witness ==
    /\ stale_call # NotRun
    /\ stale_call.done
    /\ stale_call.result.counted
    /\ stale_call.result.behind = 50
    /\ stale_call.result.verdict = "True"
    /\ stale_call.result.prompts = <<>>

\* the image was created at the tip of its comparison branch, which has
\* gained n commits since
GainedSinceImage(c, n) ==
    /\ LabelGet(c.image.labels, "dkr.commit") = Hash(1, c.start)
    /\ \/ LabelGet(c.image.labels, "dkr.branch_from") = c.moving
       \/ /\ LabelGet(c.image.labels, "dkr.branch_from") = None
          /\ LabelGet(c.image.labels, "dkr.branch") = c.moving
    /\ c.added = n

\* C4 as stated: after N > 50 further commits the check reports a drift of
\* exactly N, asks the decision prompt once, and returns 'update' if the
\* answer is 'y' or 'yes' and True for any other answer.
C4_DriftPromptAsTyped ==
    (/\ stale_call # NotRun
     /\ stale_call.done
     /\ stale_call.added > 50
     /\ GainedSinceImage(stale_call, stale_call.added))
    => LET r == stale_call.result IN
       /\ r.counted /\ r.behind = stale_call.added
       /\ r.prompts = <<"update before starting?">>
       /\ r.verdict = IF stale_call.answer \in {<<"y">>, <<"y", "e", "s">>}
                      THEN "update" ELSE "True"

\* C4 amended: after N > 50 further commits the check reports a drift of
\* exactly N, asks the decision prompt once, and returns 'update' if the
\* answer, stripped of surrounding whitespace and lower-cased, is 'y' or
\* 'yes', and True for any other answer.
C4_DriftPromptNormalized ==
    (/\ stale_call # NotRun
     /\ stale_call.done
     /\ stale_call.added > 50
     /\ GainedSinceImage(stale_call, stale_call.added))
    => LET r == stale_call.result IN
       /\ r.counted /\ r.behind = stale_call.added
       /\ r.prompts = <<"update before starting?">>
       /\ r.verdict = IF Lower(Strip(stale_call.answer))
                            \in {<<"y">>, <<"y", "e", "s">>}
                      THEN "update" ELSE "True"

C4_Witness ==
    /\ stale_call # NotRun
    /\ stale_call.done
    /\ stale_call.added = 52
    /\ GainedSinceImage(stale_call, 52)
    /\ stale_call.moving = RefOM
    /\ stale_call.answer = <<"Y">>
    /\ stale_call.result.behind = 52
    /\ stale_call.result.verdict = "update"

\* a label counts as present when it is there and not empty (what the
\* code's `not` and `or` test)
HasLabel(labels, k) == k \in DOMAIN labels /\ labels[k] # EmptyStr

\* C6: the check returns True without counting commits and without a prompt
\* whenever the image has no commit label, or neither an originating-ref
\* label nor a branch label, or its comparison branch (the originating-ref
\* label if present, else the branch label) does not resolve in the
\* repository.
C6_NothingToCompareIsFresh ==
    (stale_call # NotRun /\ stale_call.done)
    => LET labels == stale_call.image.labels
           cmp    == IF HasLabel(labels, "dkr.branch_from")
                     THEN labels["dkr.branch_from"]
                     ELSE labels["dkr.branch"]
       IN  (\/ ~HasLabel(labels, "dkr.commit")
            \/ (/\ ~HasLabel(labels, "dkr.branch_from")
                /\ ~HasLabel(labels, "dkr.branch"))
            \/ GitRevParse(stale_call.repo, cmp) = EmptyStr)
           => /\ stale_call.result.verdict = "True"
              /\ ~stale_call.result.rev_list_run
              /\ stale_call.result.prompts = <<>>
              /\ stale_call.result.printed = <<>>

C6_Witness ==
    /\ stale_call # NotRun
    /\ stale_call.done
    /\ HasLabel(stale_call.image.labels, "dkr.commit")
    /\ LabelGet(stale_call.image.labels, "dkr.branch_from") = UnknownRef
    /\ LabelGet(stale_call.image.labels, "dkr.branch") = BranchM
    /\ stale_call.added > 50
    /\ stale_call.moving = BranchM
    /\ stale_call.result = Fresh
(***************************************************************************)
(* git operations used by the commands                                     *)
(***************************************************************************)
\* git rev-parse --abbrev-ref HEAD
GitAbbrevRefHead(r) == IF r.head \in DOMAIN r.branches THEN r.head ELSE HEAD

\* resolve_head: the branch name, or the commit SHA when HEAD is detached
resolve_head(r) ==
    LET ref == GitAbbrevRefHead(r) IN
    IF ref = HEAD THEN GitRevParse(r, HEAD) ELSE ref

TrackingName(rm, b) == rm \o <<Slash>> \o b

\* a plausible slip: nothing is fetched
GitFetchNothing(r, upstream, rm, b) == [ok |-> TRUE, repo |-> r]

\* git fetch <rm> <b>: the remote-tracking ref follows the remote's branch;
\* git fails when the remote has no such branch
GitFetch(r, upstream, rm, b) ==
    LET name == TrackingName(rm, b) IN
    IF name \in DOMAIN upstream
    THEN [ok |-> TRUE,
          repo |-> [r EXCEPT !.tracking =
                       [n \in DOMAIN r.tracking \cup {name} |->
                           IF n = name THEN upstream[name] ELSE r.tracking[n]]]]
    ELSE [ok |-> FALSE, repo |-> r]

\* a plausible slip: the checkout reports success and HEAD stays where it is
GitCheckoutStays(r, name) == [ok |-> TRUE, repo |-> r]

\* git checkout <name>: a local branch is switched to; anything else that
\* names a commit detaches HEAD there; a name that only one remote has a
\* tracking branch for becomes a new local branch at that commit
GitCheckout(r, name) ==
    IF name \in DOMAIN r.branches
    THEN [ok |-> TRUE, repo |-> [r EXCEPT !.head = name]]
    ELSE IF GitRevParse(r, name) # EmptyStr
    THEN [ok |-> TRUE, repo |-> [r EXCEPT !.head = GitRevParse(r, name)]]
    ELSE LET cands == {t \in DOMAIN r.tracking :
                          \E rm \in SeqToSet(r.remotes) :
                              t = TrackingName(rm, name)}
         IN  IF Cardinality(cands) = 1
             THEN LET t == CHOOSE t \in cands : TRUE IN
                  [ok |-> TRUE,
                   repo |-> [r EXCEPT
                       !.head = name,
                       !.branches = [n \in DOMAIN r.branches \cup {name} |->
                           IF n = name THEN r.tracking[t] ELSE r.branches[n]]]]
             ELSE [ok |-> FALSE, repo |-> r]

(***************************************************************************)
(* tags and labels                                                         *)
(***************************************************************************)
\* the characters re.sub(r"[^a-zA-Z0-9._-]", "-", name) replaces, among
\* those that occur here ("#" opens a commit SHA, which is all hex digits)
UnsafeTagChars == {Slash, " ", ":", "\n", "\t"}

sanitize_tag(name) ==
    [i \in 1..Len(name) |-> IF name[i] \in UnsafeTagChars THEN "-" ELSE name[i]]

\* Path.name: the last component of a path
PathName(path) == LET parts == Split(path, Slash) IN parts[Len(parts)]

image_tag(repo_path, branch) ==
    <<"d", "k", "r", ":">> \o sanitize_tag(PathName(repo_path)) \o <<"-">>
        \o sanitize_tag(branch)

\* datetime.now(timezone.utc).isoformat(), for the clock's reading
IsoFormat(now) == <<DigitChar(now \div 10), DigitChar(now % 10)>>

\* a plausible slip: the originating ref is not passed on
build_labels_without_origin(repo_path, branch, commit, image_type, branch_from, now) ==
    Labels(PathName(repo_path), repo_path, branch, branch, commit,
           IsoFormat(now), image_type)

build_labels(repo_path, branch, commit, image_type, branch_from, now) ==
    Labels(PathName(repo_path), repo_path, branch,
           IF Truthy(branch_from) THEN branch_from ELSE branch,
           commit, IsoFormat(now), image_type)

(***************************************************************************)
(* create-image and update-image                                           *)
(*                                                                         *)
(* One command runs at a time; pc is its position.  Between commands the   *)
(* user commits, switches branches, and the remote's branch moves.         *)
(***************************************************************************)
DockerfilePath == ".dkr-Dockerfile"
EntrypointPath == ".dkr-entrypoint.sh"
InstallPkgPath == ".dkr-install-packages.sh"
Transient == {DockerfilePath, EntrypointPath, InstallPkgPath}

MaxHeight == 2
MaxBuilds == 2

BranchX == <<"x">>
RemoteO == <<"o">>
ArgRefs == {None, HEAD, BranchM, BranchD, RefOM, BranchX,
            TrackingName(RemoteO, BranchX)}

NoCmd ==
    [kind |-> "none", ssh_key |-> "", git_repo |-> "", arg_ref |-> None,
     branch_from |-> None, remote |-> None, branch |-> None, fetched |-> <<>>,
     commit |-> None, checkout_branch |-> None, tag |-> None,
     labels |-> NoLabels, base_ref |-> None,
     original_ref |-> None, need_checkout |-> FALSE, head_before |-> None,
     switched |-> FALSE, conf_at |-> None, written |-> {},
     pending |-> "", outcome |-> ""]

Init ==
    /\ parse_call = NotRun
    /\ pkg_call = NotRun
    /\ find_call = NotRun
    /\ stale_call = NotRun
    /\ start_call = NotRun
    /\ conf_call = NotRun
    /\ git_repo = [branches |-> [b \in {BranchM, BranchD} |-> Hash(1, 1)],
                   tracking |-> [t \in {RefOM} |-> Hash(1, 1)],
                   remotes  |-> <<RemoteO>>,
                   top      |-> <<1>>,
                   head     |-> BranchM]
    /\ remote = [t \in {RefOM} |-> Hash(1, 1)]
    /\ files = {}
    /\ docker_store = <<>>
    /\ clock = 0
    /\ pc = "idle"
    /\ cmd = NoCmd

\* the command ends here with the given outcome
Ends(c, outcome) ==
    /\ cmd' = [c EXCEPT !.outcome = outcome]
    /\ pc' = "done"

\* the first three lines of cmd_create_image / cmd_update_image
CmdBegin ==
    /\ pc = "idle"
    /\ clock < MaxBuilds
    /\ \E kind \in {"create-image", "update-image"},
          key \in {"exists", "missing"},
          rp \in {"repo", "not_a_repo"},
          ref \in ArgRefs :
           LET c == [NoCmd EXCEPT !.kind = kind, !.ssh_key = key,
                                  !.git_repo = rp, !.arg_ref = ref]
           IN  IF key = "missing" \/ rp = "not_a_repo"
               THEN Ends(c, "exit")
               ELSE /\ cmd' = [c EXCEPT !.branch_from =
                               IF Truthy(ref) THEN ref
                               ELSE resolve_head(git_repo)]
                    /\ pc' = "fetch"
    /\ UNCHANGED <<parse_call, pkg_call, find_call, stale_call, start_call,
                   conf_call, git_repo, remote, files, docker_store, clock>>

FetchIfRemote ==
    /\ pc = "fetch"
    /\ LET pr == parse_branch_ref(cmd.branch_from, RepoPath, git_repo.remotes)
           c  == [cmd EXCEPT !.remote = pr[1], !.branch = pr[2]]
       IN  IF Truthy(pr[1])
           THEN LET f == GitFetch(git_repo, remote, pr[1], pr[2])
                    cf == [c EXCEPT !.fetched = <<pr>>]
                IN  /\ git_repo' = f.repo
                    /\ IF f.ok
                       THEN cmd' = cf /\ pc' = "resolve"
                       ELSE Ends(cf, "CalledProcessError")
           ELSE /\ cmd' = c
                /\ pc' = "resolve"
                /\ UNCHANGED git_repo
    /\ UNCHANGED <<parse_call, pkg_call, find_call, stale_call, start_call,
                   conf_call, remote, files, docker_store, clock>>

\* cmd_create_image from resolve_commit to the call of _build_image
CreateResolve ==
    /\ pc = "resolve"
    /\ cmd.kind = "create-image"
    /\ LET commit == GitRevParse(git_repo, cmd.branch_from)
           checkout_branch == IF Truthy(cmd.remote) THEN cmd.branch
                              ELSE cmd.branch_from
       IN  IF commit = EmptyStr
           THEN Ends(cmd, "CalledProcessError") /\ UNCHANGED clock
           ELSE /\ clock' = clock + 1
                /\ cmd' = [cmd EXCEPT
                       !.commit = commit,
                       !.checkout_branch = checkout_branch,
                       !.tag = image_tag(RepoPath, checkout_branch),
                       !.labels = build_labels(RepoPath, checkout_branch,
                                      commit, TypeBase, cmd.branch_from,
                                      clock')]
                /\ pc' = "build"
    /\ UNCHANGED <<parse_call, pkg_call, find_call, stale_call, start_call,
                   conf_call, git_repo, remote, files, docker_store>>

\* a plausible slip: the base is looked up for the repository alone
base_lookup_any_branch(store, repo_path, checkout_branch) ==
    find_images(store, "ok", "ok", repo_path, None)

\* find_latest_image(repo_path, checkout_branch), with docker answering
base_lookup(store, repo_path, checkout_branch) ==
    find_images(store, "ok", "ok", repo_path, checkout_branch)

\* cmd_update_image from the base lookup to the call of _build_image
UpdateResolve ==
    /\ pc = "resolve"
    /\ cmd.kind = "update-image"
    /\ LET checkout_branch == IF Truthy(cmd.remote) THEN cmd.branch
                              ELSE cmd.branch_from
           found == base_lookup(docker_store, RepoPath, checkout_branch)
           base == find_latest_image(found)
           commit == GitRevParse(git_repo, cmd.branch_from)
           c == [cmd EXCEPT !.checkout_branch = checkout_branch]
       IN  \* `if not base`: base is None exactly when nothing was found
           IF found.images = <<>>
           THEN Ends(c, "exit") /\ UNCHANGED clock
           ELSE IF commit = EmptyStr
           THEN Ends(c, "CalledProcessError") /\ UNCHANGED clock
           ELSE /\ clock' = clock + 1
                /\ cmd' = [c EXCEPT
                       !.base_ref = IF base.tags # <<>> THEN base.tags[1]
                                    ELSE base.id,
                       !.commit = commit,
                       !.tag = image_tag(RepoPath, checkout_branch),
                       !.labels = build_labels(RepoPath, checkout_branch,
                                      commit, TypeUpdate, cmd.branch_from,
                                      clock')]
                /\ pc' = "build"
    /\ UNCHANGED <<parse_call, pkg_call, find_call, stale_call, start_call,
                   conf_call, git_repo, remote, files, docker_store>>

\* _build_image up to the try: original_ref, need_checkout, the checkout
BuildCheckout ==
    /\ pc = "build"
    /\ LET original_ref == resolve_head(git_repo)
           need_checkout == /\ cmd.checkout_branch # HEAD
                            /\ cmd.checkout_branch # original_ref
           c == [cmd EXCEPT !.original_ref = original_ref,
                            !.need_checkout = need_checkout,
                            !.head_before = git_repo.head]
       IN  IF need_checkout
           THEN LET co == GitCheckout(git_repo, cmd.checkout_branch) IN
                /\ git_repo' = co.repo
                /\ IF co.ok
                   THEN cmd' = [c EXCEPT !.switched = TRUE] /\ pc' = "try_conf"
                   ELSE Ends(c, "CalledProcessError")
           ELSE /\ cmd' = c
                /\ pc' = "try_conf"
                /\ UNCHANGED git_repo
    /\ UNCHANGED <<parse_call, pkg_call, find_call, stale_call, start_call,
                   conf_call, remote, files, docker_store, clock>>

\* an exception leaves the try body: the finally clause runs next
Raises(c, exception) ==
    /\ cmd' = [c EXCEPT !.pending = exception]
    /\ pc' = "finally"

\* conf = load_dkr_conf(repo_path): reads the checked-out tree
TryLoadConf ==
    /\ pc = "try_conf"
    /\ \E result \in {"ok", "OSError", "KeyboardInterrupt"} :
           IF result = "ok"
           THEN /\ cmd' = [cmd EXCEPT !.conf_at = GitRevParse(git_repo, HEAD)]
                /\ pc' = "try_dockerfile"
           ELSE Raises(cmd, result)
    /\ UNCHANGED <<parse_call, pkg_call, find_call, stale_call, start_call,
                   conf_call, git_repo, remote, files, docker_store, clock>>

\* writing one transient file: it is there when the write succeeds, and may
\* or may not be there when the write is cut short
WriteStep(path, next) ==
    \E result \in {"ok", "OSError", "KeyboardInterrupt"}, left \in BOOLEAN :
        IF result = "ok"
        THEN /\ left
             /\ files' = files \cup {path}
             /\ cmd' = [cmd EXCEPT !.written = @ \cup {path}]
             /\ pc' = next
        ELSE /\ files' = IF left THEN files \cup {path} ELSE files
             /\ Raises([cmd EXCEPT !.written =
                            IF left THEN @ \cup {path} ELSE @], result)

TryWriteDockerfile ==
    /\ pc = "try_dockerfile"
    /\ WriteStep(DockerfilePath, "try_entrypoint")
    /\ UNCHANGED <<parse_call, pkg_call, find_call, stale_call, start_call,
                   conf_call, git_repo, remote, docker_store, clock>>

TryCopyEntrypoint ==
    /\ pc = "try_entrypoint"
    /\ WriteStep(EntrypointPath, "try_install")
    /\ UNCHANGED <<parse_call, pkg_call, find_call, stale_call, start_call,
                   conf_call, git_repo, remote, docker_store, clock>>

TryCopyInstall ==
    /\ pc = "try_install"
    /\ WriteStep(InstallPkgPath, "try_docker")
    /\ UNCHANGED <<parse_call, pkg_call, find_call, stale_call, start_call,
                   conf_call, git_repo, remote, docker_store, clock>>

\* the commit the image's clone of the repository ends on: BRANCH as the
\* repository at REPO_PATH has it while the build runs
BuildContent(r, checkout_branch) ==
    IF checkout_branch = HEAD THEN GitRevParse(r, HEAD)
    ELSE IF checkout_branch \in DOMAIN r.branches
    THEN r.branches[checkout_branch]
    ELSE IF ObjectExists(r, checkout_branch) THEN checkout_branch
    ELSE EmptyStr

\* a plausible slip: the image that held the tag is removed
DockerBuildReplacing(store, id, tag, labels, content) ==
    <<[Id |-> id, RepoTags |-> <<tag>>, Labels |-> labels,
       content |-> content]>>
        \o SelectSeq(store, LAMBDA img : tag \notin SeqToSet(img.RepoTags))

\* docker build --tag: the tag moves to the new image
Untag(store, tag) ==
    [i \in 1..Len(store) |->
        [store[i] EXCEPT !.RepoTags = SelectSeq(@, LAMBDA t : t # tag)]]

DockerBuild(store, id, tag, labels, content) ==
    <<[Id |-> id, RepoTags |-> <<tag>>, Labels |-> labels,
       content |-> content]>> \o Untag(store, tag)

\* get_claude_latest_version (never raises) and the docker build
TryDockerBuild ==
    /\ pc = "try_docker"
    /\ \E result \in {"ok", "CalledProcessError", "KeyboardInterrupt"} :
           LET content == BuildContent(git_repo, cmd.checkout_branch) IN
           IF result = "ok" /\ content # EmptyStr
           THEN /\ docker_store' = DockerBuild(docker_store,
                                       <<"i", DigitChar(clock)>>, cmd.tag,
                                       cmd.labels, content)
                /\ cmd' = cmd
                /\ pc' = "finally"
           ELSE /\ Raises(cmd, IF result = "ok" THEN "CalledProcessError"
                               ELSE result)
                /\ UNCHANGED docker_store
    /\ UNCHANGED <<parse_call, pkg_call, find_call, stale_call, start_call,
                   conf_call, git_repo, remote, files, clock>>

\* a plausible slip: only the Dockerfile is removed
unlink_dockerfile_only(fs) == fs \ {DockerfilePath}

\* the three unlink(missing_ok=True) of the finally clause
unlink_transient(fs) ==
    ((fs \ {DockerfilePath}) \ {EntrypointPath}) \ {InstallPkgPath}

\* a plausible slip: the worktree is left where the build put it
restore_ref_omitted(r, need_checkout, original_ref) ==
    [ok |-> TRUE, repo |-> r]

\* if need_checkout: git checkout original_ref
restore_ref(r, need_checkout, original_ref) ==
    IF need_checkout THEN GitCheckout(r, original_ref)
    ELSE [ok |-> TRUE, repo |-> r]

\* the finally clause of _build_image, then the return or the raise
BuildFinally ==
    /\ pc = "finally"
    /\ files' = unlink_transient(files)
    /\ LET co == restore_ref(git_repo, cmd.need_checkout, cmd.original_ref) IN
       /\ git_repo' = co.repo
       /\ Ends([cmd EXCEPT !.pending = ""],
               IF ~co.ok THEN "CalledProcessError"
               ELSE IF cmd.pending # "" THEN cmd.pending
               ELSE "ok")
    /\ UNCHANGED <<parse_call, pkg_call, find_call, stale_call, start_call,
                   conf_call, remote, docker_store, clock>>

\* the process is gone; the next command can be given
CmdExit ==
    /\ pc = "done"
    /\ pc' = "idle"
    /\ cmd' = NoCmd
    /\ UNCHANGED <<parse_call, pkg_call, find_call, stale_call, start_call,
                   conf_call, git_repo, remote, files, docker_store, clock>>

\* the user commits on the checked-out branch
GitCommit ==
    /\ pc = "idle"
    /\ git_repo.head \in DOMAIN git_repo.branches
    /\ LET tip == git_repo.branches[git_repo.head] IN
       /\ HeightOf(tip) = git_repo.top[LineOf(tip)]
       /\ HeightOf(tip) < MaxHeight
       /\ git_repo' = [git_repo EXCEPT
              !.branches[git_repo.head] = Hash(LineOf(tip), HeightOf(tip) + 1),
              !.top[LineOf(tip)] = HeightOf(tip) + 1]
    /\ UNCHANGED <<parse_call, pkg_call, find_call, stale_call, start_call,
                   conf_call, remote, files, docker_store, clock, pc, cmd>>

\* the user switches to another branch, or detaches HEAD at a commit
GitSwitch ==
    /\ pc = "idle"
    /\ \E name \in DOMAIN git_repo.branches
                  \cup {git_repo.branches[b] : b \in DOMAIN git_repo.branches} :
           /\ name # git_repo.head
           /\ git_repo' = GitCheckout(git_repo, name).repo
    /\ UNCHANGED <<parse_call, pkg_call, find_call, stale_call, start_call,
                   conf_call, remote, files, docker_store, clock, pc, cmd>>

\* somebody pushes to the remote's branch
RemotePush ==
    /\ pc = "idle"
    /\ \E t \in DOMAIN remote :
           LET tip == remote[t] IN
           /\ HeightOf(tip) < MaxHeight
           /\ remote' = [remote EXCEPT
                  ![t] = Hash(LineOf(tip), HeightOf(tip) + 1)]
           /\ git_repo' = [git_repo EXCEPT !.top[LineOf(tip)] =
                  IF @ < HeightOf(tip) + 1 THEN HeightOf(tip) + 1 ELSE @]
    /\ UNCHANGED <<parse_call, pkg_call, find_call, stale_call, start_call,
                   conf_call, files, docker_store, clock, pc, cmd>>

Next ==
    \/ CmdBegin
    \/ FetchIfRemote
    \/ CreateResolve
    \/ UpdateResolve
    \/ BuildCheckout
    \/ TryLoadConf
    \/ TryWriteDockerfile
    \/ TryCopyEntrypoint
    \/ TryCopyInstall
    \/ TryDockerBuild
    \/ BuildFinally
    \/ CmdExit
    \/ GitCommit
    \/ GitSwitch
    \/ RemotePush

Spec == Init /\ [][Next]_vars

\* the positions inside the try body of _build_image, and its finally
TryBody == {"try_conf", "try_dockerfile", "try_entrypoint", "try_install",
            "try_docker", "finally"}
Failures == {"OSError", "CalledProcessError", "KeyboardInterrupt"}

\* HEAD once `git checkout target` has succeeded
OnTarget(r, target) ==
    IF target \in DOMAIN r.branches THEN r.head = target
    ELSE r.head = GitRevParse(r, target)

\* C1: when the target branch is not "HEAD" and differs from the checked-out
\* ref, the worktree is on the target for the whole try body, and when
\* _build_image returns or raises after that switch (success, a failure of
\* any step, an interrupt) HEAD is where it was before the call: the same
\* branch, or the same commit when it was detached.
C1_OriginalRefRestored ==
    /\ (pc \in TryBody /\ cmd.need_checkout)
           => (cmd.switched /\ OnTarget(git_repo, cmd.checkout_branch))
    /\ (pc = "done" /\ cmd.switched) => git_repo.head = cmd.head_before

\* a build that had switched away from a detached HEAD was interrupted, and
\* HEAD is detached at the same commit again
C1_Witness ==
    /\ pc = "done"
    /\ cmd.switched
    /\ cmd.outcome = "KeyboardInterrupt"
    /\ IsHash(cmd.head_before)
    /\ cmd.checkout_branch # cmd.original_ref
    /\ git_repo.head = cmd.head_before

\* C2: when _build_image returns or raises, whatever step it got to, none of
\* .dkr-Dockerfile, .dkr-entrypoint.sh, .dkr-install-packages.sh is in the
\* worktree.
C2_NoTransientFileLeft ==
    (pc = "done" /\ cmd.original_ref # None) => files \cap Transient = {}

\* a build that had written all three files failed in the docker build
C2_Witness ==
    /\ pc = "done"
    /\ cmd.written = Transient
    /\ cmd.outcome \in Failures
    /\ files = {}

(***************************************************************************)
(* start-image                                                             *)
(***************************************************************************)
\* is_git_repo(path): the repository of this model is the one at RepoPath
is_git_repo(path) == path = RepoPath

NotChecked == [Fresh EXCEPT !.verdict = "not checked"]

\* cmd_update_image(ua) as cmd_start_image calls it: ua carries git_repo and
\* branch_from only, and resolve_ssh_key reads args.ssh_key first
cmd_update_image_nested(ua) ==
    IF "ssh_key" \notin DOMAIN ua THEN "AttributeError" ELSE "ok"

Stopped(outcome, image, stale) ==
    [outcome |-> outcome, image_id |-> image, image_ref |-> None,
     stale |-> stale, update_called |-> outcome = "AttributeError"]

\* cmd_start_image(args) against a store and the repository at RepoPath,
\* with the answer the user gives if a prompt is shown
cmd_start_image(args, store, r, answer) ==
    LET repo_path == IF Truthy(args.git_repo) THEN args.git_repo ELSE None
        branch == IF Truthy(args.branch_from)
                  THEN parse_branch_ref(args.branch_from, None, <<>>)[2]
                  ELSE None
        found  == find_images(store, "ok", "ok", repo_path, branch)
    IN
    IF Truthy(args.git_repo) /\ ~is_git_repo(args.git_repo)
    THEN Stopped("exit: not a git repository", None, NotChecked)
    ELSE IF found.images = <<>>
    THEN Stopped("exit: no dkr image found", None, NotChecked)
    ELSE
    LET image == find_latest_image(found)
        rp    == LabelGet(image.labels, "dkr.repo_path")
        path  == IF repo_path = None /\ Truthy(rp) THEN rp ELSE repo_path
        stale == IF path # None /\ is_git_repo(path)
                 THEN staleness_check(image, r, answer)
                 ELSE NotChecked
        ua    == [git_repo |-> path, branch_from |-> args.branch_from]
    IN
    IF stale.verdict = "update" /\ cmd_update_image_nested(ua) # "ok"
    THEN Stopped(cmd_update_image_nested(ua), image.id, stale)
    ELSE IF args.anthropic_key = "missing"
    THEN Stopped("exit: Anthropic API key file not found", image.id, stale)
    ELSE [outcome |-> "docker run", image_id |-> image.id,
          image_ref |-> IF image.tags # <<>> THEN image.tags[1] ELSE image.id,
          stale |-> stale, update_called |-> FALSE]

\* the repository at RepoPath: branch m and o/m at height `tip` of line 1;
\* line 2 once held a commit that no ref reaches any more
StartRepo(tip) == StaleRepo(tip, 0)

StartStore(commit, branch_from, tags) ==
    <<[Id |-> <<"a">>, RepoTags |-> tags,
       Labels |-> [PartialLabels(commit, branch_from, BranchM)
                      EXCEPT !["dkr.created_at"] = <<"0", "2">>]],
      [Id |-> <<"b">>, RepoTags |-> <<>>,
       Labels |-> Labels(<<"q">>, OtherRepoPath, BranchM, BranchM,
                         Hash(1, 1), <<"0", "1">>, TypeBase)]>>

StartInit ==
    /\ \E tip \in {1, MaxTip - 2, MaxTip - 1},
          commit \in {Hash(1, 1), Hash(2, 1), EmptyStr},
          bf \in {BranchM, RefOM},
          tags \in {<<>>, << image_tag(RepoPath, BranchM) >>},
          gr \in {None, RepoPath, OtherRepoPath},
          ref \in {None, BranchM, RefOM, UnknownRef},
          key \in {"not given", "exists", "missing"},
          ans \in Answers :
           start_call = [args   |-> [git_repo |-> gr, branch_from |-> ref,
                                     anthropic_key |-> key],
                         store  |-> StartStore(commit, bf, tags),
                         repo   |-> StartRepo(tip),
                         answer |-> ans,
                         done   |-> FALSE,
                         result |-> Stopped("", None, NotChecked)]
    /\ parse_call = NotRun
    /\ pkg_call = NotRun
    /\ find_call = NotRun
    /\ stale_call = NotRun
    /\ conf_call = NotRun
    /\ MainNotRun

CmdStartImage ==
    /\ start_call # NotRun
    /\ ~start_call.done
    /\ start_call' = [start_call EXCEPT
           !.done = TRUE,
           !.result = cmd_start_image(start_call.args, start_call.store,
                                      start_call.repo, start_call.answer)]
    /\ UNCHANGED <<parse_call, pkg_call, find_call, stale_call, conf_call, mainVars>>

SpecStart == StartInit /\ [][CmdStartImage]_vars

\* the image start-image selects is compared with its branch, and the count
\* of commits between them cannot be taken
CountFails ==
    /\ start_call.result.stale.verdict # "not checked"
    /\ \E i \in 1..Len(start_call.store) :
           LET img == start_call.store[i] IN
           /\ img.Id = start_call.result.image_id
           /\ Truthy(LabelGet(img.Labels, "dkr.commit"))
           /\ GitRevListCount(start_call.repo,
                  LabelGet(img.Labels, "dkr.commit"),
                  LabelGet(img.Labels, "dkr.branch_from")).returncode # 0

LatestFor(store, filter_branch) ==
    find_latest_image(find_images(store, "ok", "ok", RepoPath, filter_branch))

\* create-image has just succeeded for a ref "<r>/<b>" with <r> configured
CreatedFromRemoteRef ==
    /\ pc = "done"
    /\ cmd.kind = "create-image"
    /\ cmd.outcome = "ok"
    /\ Contains(cmd.arg_ref, Slash)
    /\ Partition(cmd.arg_ref, Slash)[1] \in SeqToSet(git_repo.remotes)

\* C13: after create-image succeeds for "<r>/<b>" with <r> a configured
\* remote, the image made by this run carries dkr.branch = <b>,
\* dkr.branch_from = "<r>/<b>" and dkr.type = "base", and it is what
\* find_images / find_latest_image return first for the repository both with
\* the branch filter "<r>/<b>" and with the branch filter <b>.
C13_RemoteRefFoundBothWays ==
    CreatedFromRemoteRef
    => LET b == Partition(cmd.arg_ref, Slash)[3] IN
       \A f \in {cmd.arg_ref, b} :
           /\ find_images(docker_store, "ok", "ok", RepoPath, f).images # <<>>
           /\ LET img == LatestFor(docker_store, f) IN
              /\ img.labels["dkr.branch"] = b
              /\ img.labels["dkr.branch_from"] = cmd.arg_ref
              /\ img.labels["dkr.type"] = TypeBase
              /\ img.labels["dkr.created_at"] = IsoFormat(clock)
              /\ img.tags = <<cmd.tag>>

\* create-image o/m succeeded while an older image of branch m existed
C13_Witness ==
    /\ CreatedFromRemoteRef
    /\ cmd.arg_ref = RefOM
    /\ Len(docker_store) = 2
    /\ docker_store[2].Labels["dkr.branch_from"] = BranchM

ImageIds(store) == {store[i].Id : i \in 1..Len(store)}

\* C14: the docker build of an update-image adds one record of type "update"
\* that is the latest image for the repository and branch, and every record
\* that was in the inventory is still there with the same id and labels.
C14_UpdateAddsNeverOverwrites ==
    [][(cmd.kind = "update-image" /\ docker_store' # docker_store)
       => /\ \A i \in 1..Len(docker_store) :
                \E j \in 1..Len(docker_store') :
                    /\ docker_store'[j].Id = docker_store[i].Id
                    /\ docker_store'[j].Labels = docker_store[i].Labels
          /\ Len(docker_store') = Len(docker_store) + 1
          /\ LET img == LatestFor(docker_store', cmd.checkout_branch) IN
             /\ img.id \notin ImageIds(docker_store)
             /\ img.labels["dkr.type"] = TypeUpdate
             /\ img.labels["dkr.branch"] = cmd.checkout_branch
             /\ img.labels["dkr.repo_path"] = RepoPath]_vars

\* an update-image succeeded on top of the image it was based on
C14_Witness ==
    /\ pc = "done"
    /\ cmd.kind = "update-image"
    /\ cmd.outcome = "ok"
    /\ Len(docker_store) = 2
    /\ docker_store[1].Labels["dkr.type"] = TypeUpdate
    /\ docker_store[2].Labels["dkr.type"] = TypeBase
    /\ docker_store[2].Labels["dkr.branch"] = docker_store[1].Labels["dkr.branch"]

\* the branch an update-image is for: <b> of "<r>/<b>" when <r> is a
\* configured remote, else the ref itself
UpdateBranch(c, r) ==
    LET p == Partition(c.branch_from, Slash) IN
    IF Contains(c.branch_from, Slash) /\ p[1] \in SeqToSet(r.remotes)
    THEN p[3] ELSE c.branch_from

\* an update-image is running, or has just ended, for a repository and
\* branch that the inventory has no image of
UpdateWithoutPrior(c, r, store) ==
    /\ c.kind = "update-image"
    /\ c.ssh_key = "exists"
    /\ c.git_repo = "repo"
    /\ \A i \in 1..Len(store) :
           ~WantedImage(store[i], RepoPath, UpdateBranch(c, r))

\* C15: when update-image is asked for and the inventory has no image for
\* the repository and branch, no step of the command switches the worktree,
\* writes a file, enters the build routine or changes the inventory, and the
\* command ends with a fatal error.
C15_NoPriorImageIsFatal ==
    [][UpdateWithoutPrior(cmd', git_repo', docker_store)
       => /\ docker_store' = docker_store
          /\ files' = files
          /\ git_repo'.head = git_repo.head
          /\ git_repo'.branches = git_repo.branches
          /\ pc' \in {"fetch", "resolve", "done"}
          /\ cmd'.original_ref = None
          /\ pc' = "done" =>
                 cmd'.outcome = IF cmd'.checkout_branch = None
                                THEN "CalledProcessError" ELSE "exit"]_vars

\* update-image d ended with the fatal exit while the inventory held an
\* image of branch m only
C15_Witness ==
    /\ pc = "done"
    /\ UpdateWithoutPrior(cmd, git_repo, docker_store)
    /\ cmd.outcome = "exit"
    /\ cmd.checkout_branch = BranchD
    /\ docker_store # <<>>

(***************************************************************************)
(* .dkr.conf                                                               *)
(***************************************************************************)
KeyBaseImage == <<"b", "a", "s", "e", "_", "i", "m", "a", "g", "e">>
KeyPackages == <<"p", "a", "c", "k", "a", "g", "e", "s">>
KeyVolumes == <<"v", "o", "l", "u", "m", "e", "s">>
KeyPreClone == <<"p", "r", "e", "_", "c", "l", "o", "n", "e">>
KeyPostClone == <<"p", "o", "s", "t", "_", "c", "l", "o", "n", "e">>

DKR_CONF_DEFAULTS ==
    [k \in {KeyBaseImage, KeyPackages, KeyVolumes, KeyPreClone, KeyPostClone}
        |-> IF k = KeyBaseImage THEN <<"f", "e", "d", "o", "r", "a", ":", "4", "3">> ELSE EmptyStr]

\* str.startswith / str.endswith with a one-character argument
StartsWith(s, c) == s # EmptyStr /\ s[1] = c
EndsWith(s, c) == s # EmptyStr /\ s[Len(s)] = c

\* "\n".join(lines)
RECURSIVE JoinLines(_)
JoinLines(lines) ==
    IF lines = <<>> THEN EmptyStr
    ELSE IF Len(lines) = 1 THEN lines[1]
    ELSE lines[1] \o <<"\n">> \o JoinLines(Tail(lines))

\* conf[key] = value
DictSet(d, key, value) ==
    [k \in DOMAIN d \cup {key} |-> IF k = key THEN value ELSE d[k]]

\* if not stripped or stripped.startswith("#"): continue
skips_line(stripped) ==
    stripped = EmptyStr \/ StartsWith(stripped, "#")

\* one turn of the loop over the lines; st holds current_section,
\* section_lines and conf
conf_line(st, line) ==
    LET stripped == Strip(line) IN
    IF skips_line(stripped) THEN st
    ELSE IF StartsWith(stripped, "[") /\ EndsWith(stripped, "]")
    THEN [st EXCEPT !.current_section = SubSeq(stripped, 2, Len(stripped) - 1)]
    ELSE IF st.current_section = KeyPreClone
    THEN [st EXCEPT !.pre_clone = Append(@, line)]
    ELSE IF st.current_section = KeyPostClone
    THEN [st EXCEPT !.post_clone = Append(@, line)]
    ELSE IF Contains(stripped, "=")
    THEN LET p == Partition(stripped, "=") IN
         [st EXCEPT !.conf = DictSet(@, Strip(p[1]), Strip(p[3]))]
    ELSE st

RECURSIVE conf_loop(_, _)
conf_loop(st, lines) ==
    IF lines = <<>> THEN st
    ELSE conf_loop(conf_line(st, Head(lines)), Tail(lines))

\* load_dkr_conf(repo_path) for a .dkr.conf with the given lines (what
\* read_text().splitlines() gives), or for no file
load_dkr_conf(exists, lines) ==
    IF ~exists THEN DKR_CONF_DEFAULTS
    ELSE LET st == conf_loop([current_section |-> None, pre_clone |-> <<>>,
                              post_clone |-> <<>>, conf |-> DKR_CONF_DEFAULTS],
                             lines)
         IN  DictSet(DictSet(st.conf, KeyPreClone, JoinLines(st.pre_clone)),
                     KeyPostClone, JoinLines(st.post_clone))

(***************************************************************************)
(* the generated Dockerfiles                                               *)
(*                                                                         *)
(* A Dockerfile is the list `lines` that the generator joins with "\n".   *)
(* A line of fixed text is a string of one symbol, the text itself; text   *)
(* that comes from the configuration is spelled out.                       *)
(***************************************************************************)
SyntaxLine == <<"# syntax=docker/dockerfile:1">>
CloneStep == <<"    git clone ${GIT_USER}@${HOST_ADDR}:${REPO_PATH} /workspace">>
CheckoutStep == <<"RUN cd /workspace && git remote rename origin host && git checkout ${BRANCH}">>
EntrypointStep == <<"COPY .dkr-entrypoint.sh /entrypoint.sh">>
FromBaseArg == <<"FROM ${BASE_IMAGE}">>
ResyncStep == <<"    git rebase FETCH_HEAD">>

\* a plausible slip: the fragment is spliced in whether empty or not
splice_always(fragment) == <<fragment, EmptyStr>>

\* if fragment: lines += [fragment, ""]
splice(fragment) ==
    IF fragment # EmptyStr THEN <<fragment, EmptyStr>> ELSE <<>>

\* `lines` of generate_dockerfile_create(conf)
generate_dockerfile_create(conf) ==
    << SyntaxLine,
       <<"FROM ">> \o conf[KeyBaseImage],
       EmptyStr,
       <<"ENV LANG=C.UTF-8">>,
       EmptyStr,
       <<"COPY .dkr-install-packages.sh /tmp/install-packages.sh">>,
       <<"RUN chmod +x /tmp/install-packages.sh && \\">>,
       <<"    /tmp/install-packages.sh ">> \o pkg_list(conf[KeyPackages])
           \o <<" && \\">>,
       <<"    rm /tmp/install-packages.sh">>,
       EmptyStr,
       <<"ARG CLAUDE_VERSION=latest">>,
       <<"RUN curl -fsSL https://claude.ai/install.sh | bash">>,
       <<"ENV PATH=/root/.local/bin:$PATH">>,
       EmptyStr,
       <<"ARG REPO_PATH">>,
       <<"ARG BRANCH">>,
       <<"ARG GIT_USER">>,
       <<"ARG HOST_ADDR=host.docker.internal">>,
       EmptyStr,
       <<"RUN mkdir -p /root/.ssh && \\">>,
       <<"    ssh-keyscan -H ${HOST_ADDR} >> /root/.ssh/known_hosts 2>/dev/null || true">>,
       EmptyStr >>
    \o splice(conf[KeyPreClone])
    \o << <<"RUN --mount=type=ssh \\">>,
          CloneStep,
          EmptyStr,
          CheckoutStep,
          EmptyStr,
          <<"ENV DKR_BRANCH=${BRANCH}">>,
          EmptyStr >>
    \o splice(conf[KeyPostClone])
    \o << EntrypointStep,
          <<"RUN chmod +x /entrypoint.sh">>,
          EmptyStr,
          <<"WORKDIR /workspace">>,
          <<"ENTRYPOINT [\"/entrypoint.sh\"]">>,
          EmptyStr >>

\* `lines` of generate_dockerfile_update(conf)
generate_dockerfile_update(conf) ==
    << SyntaxLine,
       <<"ARG BASE_IMAGE=scratch">>,
       FromBaseArg,
       EmptyStr,
       <<"ARG GIT_USER">>,
       <<"ARG REPO_PATH">>,
       <<"ARG BRANCH">>,
       <<"ARG HOST_ADDR=host.docker.internal">>,
       EmptyStr,
       <<"RUN --mount=type=ssh \\">>,
       <<"    cd /workspace && \\">>,
       <<"    git fetch ${GIT_USER}@${HOST_ADDR}:${REPO_PATH} ${BRANCH} && \\">>,
       ResyncStep,
       EmptyStr >>
    \o splice(conf[KeyPostClone])

\* the lines a .dkr.conf is made of here
LinePreClone == <<"[", "p", "r", "e", "_", "c", "l", "o", "n", "e", "]">>
LinePostClone == <<" ", "[", "p", "o", "s", "t", "_", "c", "l", "o", "n", "e", "]">>
LineOtherSection == <<"[", "x", "]">>
LineBaseImage == <<"b", "a", "s", "e", "_", "i", "m", "a", "g", "e", "=", "u">>
LineRun == <<" ", "R", "U", "N", " ", "a">>
LineComment == <<"#", "c">>
ConfLines == {LinePreClone, LinePostClone, LineOtherSection, LineBaseImage,
              LineRun, LineComment, EmptyStr}
MaxConfLines == 3

NoDockerfile == <<>>

ConfInit ==
    /\ \E exists \in BOOLEAN :
       \E lines \in (IF exists
                     THEN UNION {[1..n -> ConfLines] : n \in 0..MaxConfLines}
                     ELSE {<<>>}) :
           conf_call = [exists |-> exists, lines |-> lines, at |-> "load",
                        conf |-> DKR_CONF_DEFAULTS,
                        create |-> NoDockerfile, update |-> NoDockerfile]
    /\ parse_call = NotRun
    /\ pkg_call = NotRun
    /\ find_call = NotRun
    /\ stale_call = NotRun
    /\ start_call = NotRun
    /\ MainNotRun

LoadDkrConf ==
    /\ conf_call # NotRun
    /\ conf_call.at = "load"
    /\ conf_call' = [conf_call EXCEPT
           !.at = "generate",
           !.conf = load_dkr_conf(conf_call.exists, conf_call.lines)]
    /\ UNCHANGED <<parse_call, pkg_call, find_call, stale_call, start_call,
                   mainVars>>

\* dockerfile_generator(conf), for create-image and for update-image
GenerateDockerfile ==
    /\ conf_call # NotRun
    /\ conf_call.at = "generate"
    /\ conf_call' = [conf_call EXCEPT
           !.at = "done",
           !.create = generate_dockerfile_create(conf_call.conf),
           !.update = generate_dockerfile_update(conf_call.conf)]
    /\ UNCHANGED <<parse_call, pkg_call, find_call, stale_call, start_call,
                   mainVars>>

ConfNext == LoadDkrConf \/ GenerateDockerfile

SpecConf == ConfInit /\ [][ConfNext]_vars

\* a line of the shape [name], surrounding whitespace aside
IsHeader(line) ==
    LET stripped == Strip(line) IN
    StartsWith(stripped, "[") /\ EndsWith(stripped, "]")

HeaderName(line) ==
    LET stripped == Strip(line) IN SubSeq(stripped, 2, Len(stripped) - 1)

\* the section line i lies in: the name of the last header before it, None
\* before the first header
SectionOf(lines, i) ==
    LET hs == {h \in 1..(i - 1) : IsHeader(lines[h])} IN
    IF hs = {} THEN None
    ELSE HeaderName(lines[CHOOSE h \in hs : \A g \in hs : g <= h])

\* the lines that are no header and lie in a section whose name is in names
ContentIn(lines, names) ==
    {i \in 1..Len(lines) :
        ~IsHeader(lines[i]) /\ SectionOf(lines, i) \in names}

\* the lines at the given positions, in file order
RECURSIVE Pick(_, _, _)
Pick(lines, keep, i) ==
    IF i > Len(lines) THEN <<>>
    ELSE (IF i \in keep THEN <<lines[i]>> ELSE <<>>)
             \o Pick(lines, keep, i + 1)

ConfLoaded == conf_call # NotRun /\ conf_call.at # "load" /\ conf_call.exists

\* C16: the lines that follow a header naming neither pre_clone nor
\* post_clone, up to the next header, are discarded: the configuration that
\* comes out is the one the file gives without them.
C16_UnknownSectionDiscarded ==
    ConfLoaded
    => LET lines == conf_call.lines
           known == {None, KeyPreClone, KeyPostClone}
           kept  == {i \in 1..Len(lines) :
                        IsHeader(lines[i]) \/ SectionOf(lines, i) \in known}
       IN  conf_call.conf = load_dkr_conf(TRUE, Pick(lines, kept, 1))

\* C17: each fragment is exactly the lines of its section, untrimmed, in file
\* order, joined by newlines.
C17_SectionContentVerbatim ==
    ConfLoaded
    => \A k \in {KeyPreClone, KeyPostClone} :
           conf_call.conf[k] =
               JoinLines(Pick(conf_call.lines,
                              ContentIn(conf_call.lines, {k}), 1))

Positions(seq, x) == {i \in 1..Len(seq) : seq[i] = x}
IndexOf(seq, x) == CHOOSE i \in 1..Len(seq) : seq[i] = x
Extra(fragment) == IF fragment # EmptyStr THEN 2 ELSE 0

\* C20: in the create Dockerfile a non-empty pre_clone fragment stands once
\* before the clone step and a non-empty post_clone fragment once between the
\* checkout step and the entry-point wiring; an empty fragment adds no line;
\* the update Dockerfile starts FROM the prior image, has no pre_clone
\* fragment, and has a non-empty post_clone fragment once, after the
\* re-synchronization step.
C20_FragmentsSpliced ==
    (conf_call # NotRun /\ conf_call.at = "done")
    => LET pre    == conf_call.conf[KeyPreClone]
           post   == conf_call.conf[KeyPostClone]
           c      == conf_call.create
           u      == conf_call.update
           preAt  == Positions(c, pre) \cap 1..(IndexOf(c, CloneStep) - 1)
           postAt == Positions(c, post)
                         \cap (IndexOf(c, CheckoutStep) + 1)
                                  ..(IndexOf(c, EntrypointStep) - 1)
       IN  /\ Cardinality(Positions(c, CloneStep)) = 1
           /\ Cardinality(Positions(c, CheckoutStep)) = 1
           /\ Cardinality(Positions(c, EntrypointStep)) = 1
           /\ pre # EmptyStr =>
                  /\ Cardinality(preAt) = 1
                  /\ Positions(c, pre) \ preAt \subseteq postAt
           /\ post # EmptyStr =>
                  /\ Cardinality(postAt) = 1
                  /\ Positions(c, post) \ postAt \subseteq preAt
           /\ Len(c) = Len(generate_dockerfile_create(DKR_CONF_DEFAULTS))
                           + Extra(pre) + Extra(post)
           /\ Positions(u, FromBaseArg) = {3}
           /\ \A i \in 1..Len(u) : u[i] # <<"FROM ">> \o conf_call.conf[KeyBaseImage]
           /\ (pre # EmptyStr /\ pre # post) => Positions(u, pre) = {}
           /\ post # EmptyStr =>
                  /\ Cardinality(Positions(u, post)) = 1
                  /\ \A i \in Positions(u, post) : i > IndexOf(u, ResyncStep)
           /\ Len(u) = Len(generate_dockerfile_update(DKR_CONF_DEFAULTS))
                           + Extra(post)

\* a configuration with a pre_clone fragment and no post_clone fragment went
\* through both generators
C20_Witness ==
    /\ conf_call # NotRun
    /\ conf_call.at = "done"
    /\ conf_call.conf[KeyPreClone] = LineRun
    /\ conf_call.conf[KeyPostClone] = EmptyStr
    /\ conf_call.conf[KeyPreClone] \in SeqToSet(conf_call.create)

(***************************************************************************)
(* refs given to create-image and update-image                             *)
(***************************************************************************)
\* C18: for an empty ref or the literal "HEAD", the labels made for the
\* build name the checked-out branch (the commit when HEAD is detached), and
\* no image in the inventory has "HEAD" as dkr.branch or dkr.branch_from.
C18_HeadRefMadeConcrete ==
    /\ (pc = "build" /\ cmd.arg_ref \in {None, EmptyStr, HEAD})
           => /\ cmd.labels["dkr.branch"] = resolve_head(git_repo)
              /\ cmd.labels["dkr.branch_from"] = resolve_head(git_repo)
    /\ \A i \in 1..Len(docker_store) :
           /\ docker_store[i].Labels["dkr.branch"] # HEAD
           /\ docker_store[i].Labels["dkr.branch_from"] # HEAD

\* the ref of the running command names a branch of a configured remote
RemoteQualified(c, r) ==
    /\ Contains(c.branch_from, Slash)
    /\ Partition(c.branch_from, Slash)[1] \in SeqToSet(r.remotes)

\* the command is past fetch_if_remote
PastFetch == pc \notin {"idle", "fetch"} /\ cmd.branch_from # None

\* C19: a fetch is issued exactly when the ref is remote-qualified, and then
\* of the one branch from the one remote; no commit is resolved before it,
\* and the commit resolved after it is the remote's tip; a ref that does not
\* resolve ends the command before any checkout, file or build.
C19_FetchThenResolve ==
    /\ pc = "fetch" => (cmd.fetched = <<>> /\ cmd.commit = None)
    /\ PastFetch =>
           cmd.fetched =
               IF RemoteQualified(cmd, git_repo)
               THEN << <<Partition(cmd.branch_from, Slash)[1],
                         Partition(cmd.branch_from, Slash)[3]>> >>
               ELSE <<>>
    /\ (PastFetch /\ cmd.commit # None /\ RemoteQualified(cmd, git_repo))
           => cmd.commit = remote[cmd.branch_from]
    /\ (PastFetch /\ pc # "resolve"
           /\ GitRevParse(git_repo, cmd.branch_from) = EmptyStr)
           => /\ pc = "done"
              /\ cmd.outcome \in {"CalledProcessError", "exit"}
              /\ cmd.original_ref = None
              /\ ~cmd.switched
              /\ files = {}

\* create-image o/m resolved the commit the remote had gained since the
\* last fetch
C19_Witness ==
    /\ pc = "build"
    /\ cmd.branch_from = RefOM
    /\ cmd.fetched = << <<RemoteO, BranchM>> >>
    /\ cmd.commit = remote[RefOM]
    /\ cmd.commit # Hash(1, 1)

(***************************************************************************)
(* the configuration a build reads                                         *)
(***************************************************************************)
\* the commit the branch being built stands at
BuiltCommit(r, checkout_branch) ==
    IF checkout_branch \in DOMAIN r.branches THEN r.branches[checkout_branch]
    ELSE IF checkout_branch = HEAD THEN GitRevParse(r, HEAD)
    ELSE checkout_branch

\* C21: a command has read no configuration before its build switches the
\* worktree (nothing is carried over from an earlier build); the read
\* happens with the worktree on the branch being built, before the restore;
\* and the configuration read is the one of the commit that branch stands
\* at, also when the operator had another branch checked out.
C21_ConfReadOnBuiltBranch ==
    /\ pc \in {"idle", "fetch", "resolve", "build", "try_conf"}
           => cmd.conf_at = None
    /\ pc = "try_dockerfile" =>
           /\ cmd.conf_at = GitRevParse(git_repo, HEAD)
           /\ cmd.need_checkout =>
                  (cmd.switched /\ OnTarget(git_repo, cmd.checkout_branch))
    /\ cmd.conf_at # None =>
           cmd.conf_at = BuiltCommit(git_repo, cmd.checkout_branch)

\* the second build of a session built another branch than the one checked
\* out, the two standing at different commits, and read the built one's
\* configuration
C21_Witness ==
    /\ pc = "done"
    /\ clock = 2
    /\ cmd.switched
    /\ cmd.outcome = "ok"
    /\ cmd.conf_at # GitRevParse(git_repo, HEAD)
    /\ cmd.conf_at = BuiltCommit(git_repo, cmd.checkout_branch)

(***************************************************************************)
(* start-image after an accepted update                                    *)
(***************************************************************************)
\* the staleness check of a finished start-image call asked for the update
UpdateRequested ==
    /\ start_call # NotRun
    /\ start_call.done
    /\ start_call.result.stale.verdict = "update"

\* C22: when the staleness check of start-image returns the update verdict,
\* update-image runs and the container is then started; the command stops
\* only for a failure of the update build (or, after it, for the missing
\* Anthropic key file that stops every start).
C22_UpdateThenStart ==
    UpdateRequested
    => start_call.result.outcome \in
           {"docker run", "update build failed",
            "exit: Anthropic API key file not found"}

(***************************************************************************)
(* the commit an image records and the commit it holds                     *)
(***************************************************************************)
\* C23: every image of the store records in dkr.commit the commit its clone
\* of the repository ends on, also an image built from a remote-qualified
\* ref while the local branch and the remote-tracking branch differ.
C23_RecordedCommitIsBuilt ==
    \A i \in 1..Len(docker_store) :
        LabelGet(docker_store[i].Labels, "dkr.commit") = docker_store[i].content
====
